---- MODULE Spec2Model ----
(***************************************************************************)
(* ESP32 voltage recorder (src/src/main.cpp): the Arduino control loop,    *)
(* the serial command dispatcher, the recording controller, the paginated  *)
(* data listing and the DAC replay engine.                                 *)
(*                                                                         *)
(* One pass of loop() is two steps: processSerialCommands() (one action    *)
(* per command handler, taken at pc = "cmd") and the sampling step with    *)
(* the trailing delay(1) (Tick, taken at pc = "tick").  The two places     *)
(* where a handler waits inside its own loop are positions of their own:   *)
(* pc = "replay" (the for loop of replayVoltages) and pc = "page" (the     *)
(* key wait of printData).                                                 *)
(*                                                                         *)
(* Voltages are IEEE-754 binary32 values, held as integers in units of     *)
(* 2^-22 V, the spacing of binary32 on [2, 4) V, the binade of the 3.3 V   *)
(* clamp.  Every binary32 value below 4 V that is a multiple of 2^-22 V,   *)
(* and every one on [4, 8) V (even multiples), is represented exactly; the *)
(* ADC inputs of the model (ADC_MV) are 0 or at least 2000 mV, so no value *)
(* finer than the unit occurs.  Times are milliseconds of millis().        *)
(***************************************************************************)
EXTENDS Integers, Sequences, FiniteSets, TLC

\* ---------------------------------------------------------------- bounds
\* Capacity of voltageBuffer (#define MAX_SAMPLES 5000), scaled down.
MAX_SAMPLES == 3
\* Rows between two key waits of printData (the literal 20), scaled down
\* with the capacity so that a session that is still under way can hold
\* more than one page (PAGE_ROWS + 1 < MAX_SAMPLES, as 20 + 1 < 5000).
PAGE_ROWS == 1
\* Number of 10 ms clock steps the model follows.
MaxLoops == 5
\* Unread input lines the serial receive buffer may hold.
MaxPending == 2

\* ------------------------------------------------------ program constants
DEFAULT_SAMPLE_RATE == 100
DEFAULT_ADC_SAMPLES == 64
RATE_MAX == 10000
RATE_SAFE == 200
ADC_SAMPLES_MAX == 1024
\* Largest raw reading of adc1_get_raw at ADC_WIDTH_BIT_12.
ADC_RAW_MAX == 4095

\* Clock advance of one pass of loop(), in ms (delay(1) plus the work of
\* the pass); 10 is also the delay(10) of the key wait of printData.
Delays == {10}
MaxTime == MaxLoops * 10

\* Calibrated ADC results (esp_adc_cal_raw_to_voltage), in mV.
ADC_MV == {0, 4000}

\* An argument text after the keyword: a decimal number, or no number.
NoArg == [num |-> FALSE, val |-> 0]
Num(n) == [num |-> TRUE, val |-> n]
RateArgs == {NoArg, Num(0), Num(1), Num(50), Num(10000), Num(10001)}
SamplesArgs == {NoArg, Num(0), Num(1024), Num(1025)}

\* Leading keywords of an input line, after trim() and toLowerCase().
Keywords == {"start", "begin", "stop", "show", "print", "replay", "replicate",
             "status", "clear", "rate", "samples", "read", "calibrate",
             "help", "other"}

NoCmd == [name |-> "none", arg |-> NoArg]

VARIABLES
    pc,                 \* "cmd", "tick", "replay", "page"
    now,                \* millis()
    pending,            \* unread input lines in the serial receive buffer
    recording, voltageBuffer, sampleCount, sampleRate, lastSampleTime,
    recordingStartTime, recordingEndTime, adcOffset, ADC_SAMPLES,
    led,                \* LED_PIN level
    dac,                \* value last written to DAC_CHANNEL_1
    replayIdx,          \* i of the for loop of replayVoltages
    sampleInterval_us,  \* local of replayVoltages
    showIdx,            \* i of the for loop of printData
    cmd,                \* the line read by this pass of loop()
    out,                \* messages printed by the current step
    rows,               \* data rows printed by the current printData
    rd,                 \* history: indices of voltageBuffer read by the
                        \* command of this pass so far
    wrIdx,              \* history: index of the last write to voltageBuffer
    dacLog,             \* history: values written to the DAC since the
                        \* last replay command was read
    fresh,              \* history: a session was started and no sample of
                        \* it has been appended yet
    startOcc,           \* history: sampleCount before the last start that
                        \* left Idle
    clearShow,          \* history: "clrIdle"/"clrRec" the last command was
                        \* a clear (issued while Idle/Recording);
                        \* "showIdle"/"showRec" a show that directly
                        \* followed such a clear; "no" otherwise
    clearOcc,           \* history: sampleCount before that clear
    recRates,           \* history: the sampleRate values in effect, while
                        \* Recording, from the append of sample 0 on
    e2e,                \* history: the scenario start, on-time ticks,
                        \* stop, show (see MonCmd, MonTick)
    sinceT              \* history: time of the last append, or of the
                        \* start that left Idle if that came later

vars == <<pc, now, pending, recording, voltageBuffer, sampleCount, sampleRate,
          lastSampleTime, recordingStartTime, recordingEndTime, adcOffset,
          ADC_SAMPLES, led, dac, replayIdx, sampleInterval_us, showIdx, cmd,
          out, rows, rd, wrIdx, dacLog, fresh, startOcc, clearShow, clearOcc, recRates,
          e2e, sinceT>>

\* The state as one record, so that a handler is a function from the state
\* before it to the state after it and handlers compose as the code calls
\* them.
Cur ==
    [pc |-> pc, pending |-> pending, recording |-> recording,
     voltageBuffer |-> voltageBuffer, sampleCount |-> sampleCount,
     sampleRate |-> sampleRate, lastSampleTime |-> lastSampleTime,
     recordingStartTime |-> recordingStartTime,
     recordingEndTime |-> recordingEndTime, adcOffset |-> adcOffset,
     ADC_SAMPLES |-> ADC_SAMPLES, led |-> led, dac |-> dac,
     replayIdx |-> replayIdx, sampleInterval_us |-> sampleInterval_us,
     showIdx |-> showIdx, cmd |-> cmd, out |-> out, rows |-> rows,
     rd |-> rd,
     wrIdx |-> wrIdx, dacLog |-> dacLog, fresh |-> fresh,
     startOcc |-> startOcc,
     clearShow |-> clearShow, clearOcc |-> clearOcc, recRates |-> recRates,
     e2e |-> e2e, sinceT |-> sinceT]

Commit(s) ==
    /\ pc' = s.pc
    /\ pending' = s.pending
    /\ recording' = s.recording
    /\ voltageBuffer' = s.voltageBuffer
    /\ sampleCount' = s.sampleCount
    /\ sampleRate' = s.sampleRate
    /\ lastSampleTime' = s.lastSampleTime
    /\ recordingStartTime' = s.recordingStartTime
    /\ recordingEndTime' = s.recordingEndTime
    /\ adcOffset' = s.adcOffset
    /\ ADC_SAMPLES' = s.ADC_SAMPLES
    /\ led' = s.led
    /\ dac' = s.dac
    /\ replayIdx' = s.replayIdx
    /\ sampleInterval_us' = s.sampleInterval_us
    /\ showIdx' = s.showIdx
    /\ cmd' = s.cmd
    /\ out' = s.out
    /\ rows' = s.rows
    /\ rd' = s.rd
    /\ wrIdx' = s.wrIdx
    /\ dacLog' = s.dacLog
    /\ fresh' = s.fresh
    /\ startOcc' = s.startOcc
    /\ clearShow' = s.clearShow
    /\ clearOcc' = s.clearOcc
    /\ recRates' = s.recRates
    /\ e2e' = s.e2e
    /\ sinceT' = s.sinceT

Say(s, m) == [s EXCEPT !.out = Append(@, m)]

\* ------------------------------------------------------------ arithmetic
\* (float)(mv / 1000.0): the binary32 value nearest to mv/1000 V, in units
\* of 2^-22 V.  mv/1000 * 2^22 = mv * 2^19 / 125; a tie is impossible below
\* 4 V (125 is odd); on [4, 8) V the spacing is two units, ties to even.
F32FromMilli(mv) ==
    IF mv < 4000
    THEN LET n == mv * (2^19)
             q == n \div 125
             r == n % 125
         IN  IF 2 * r > 125 THEN q + 1 ELSE q
    ELSE LET n == mv * (2^19)
             q == n \div 250
             r == n % 250
             up == r > 125 \/ (r = 125 /\ q % 2 = 1)
         IN  2 * (IF up THEN q + 1 ELSE q)

\* The largest value "total" can reach in the accumulation loop of
\* readVoltageHighPrecision and calibrateADCOffset: n raw readings.
AccumulatorMax(n) == n * ADC_RAW_MAX

\* x is a value of uint32_t: not negative, and below 2^16 * 2^16.
FitsUint32(x) == x >= 0 /\ x \div 65536 < 65536

\* readVoltageHighPrecision with the calibrated ADC result mv: the offset is
\* subtracted in binary32 (exact on the grid) and the result clamped at 0.
readVoltageHighPrecision(mv, offset) ==
    LET voltage == F32FromMilli(mv) - offset
    IN  IF voltage < 0 THEN 0 ELSE voltage

\* The clamp and conversion of replayVoltages.  "voltage > 3.3" compares
\* with the double 3.3 (13841203.2 units); "voltage = 3.3" stores the
\* binary32 nearest to 3.3, which is 13841203 units, just below 3.3.
\* (uint8_t)(voltage * 255.0 / 3.3) is floor(v * 425 / (11 * 2^21)), taken
\* in two divisions to stay within 32-bit integers; the double rounding of
\* the quotient (2^-52 relative) is far below its distance to an integer.
DacValue(sample) ==
    LET F32_3V3 == 13841203
        voltage == IF sample > F32_3V3 THEN F32_3V3
                   ELSE IF sample < 0 THEN 0 ELSE sample
        N == 11 * (2^21)
        q1 == (voltage * 25) \div N
        r1 == (voltage * 25) % N
    IN  (17 * q1 + ((17 * r1) \div N)) % 256

\* String::toInt() of the argument text: 0 when it holds no number.
ToInt(a) == IF a.num THEN a.val ELSE 0

\* The if / else-if chain of processSerialCommands on the leading keyword.
Dispatch(kw) ==
    IF kw \in {"start", "begin"} THEN "start"
    ELSE IF kw = "stop" THEN "stop"
    ELSE IF kw \in {"show", "print"} THEN "show"
    ELSE IF kw \in {"replay", "replicate"} THEN "replay"
    ELSE IF kw = "status" THEN "status"
    ELSE IF kw = "clear" THEN "clear"
    ELSE IF kw = "rate" THEN "rate"
    ELSE IF kw = "samples" THEN "samples"
    ELSE IF kw = "read" THEN "read"
    ELSE IF kw = "calibrate" THEN "calibrate"
    ELSE IF kw = "help" THEN "help"
    ELSE "unknown"

\* ---------------------------------------------------------------- handlers
\* startRecording without the reset of sampleCount.
startRecording_NoReset(s, t) ==
    IF s.recording
    THEN Say(s, "Already recording!")
    ELSE Say([s EXCEPT !.recording = TRUE,
                       !.lastSampleTime = t, !.recordingStartTime = t],
             "Started recording")

\* startRecording without the early return when already recording.
startRecording_NoGuard(s, t) ==
    Say([s EXCEPT !.sampleCount = 0, !.recording = TRUE,
                  !.lastSampleTime = t, !.recordingStartTime = t],
        "Started recording")

startRecording(s, t) ==
    IF s.recording
    THEN Say(s, "Already recording!")
    ELSE Say([s EXCEPT !.sampleCount = 0, !.recording = TRUE,
                       !.lastSampleTime = t, !.recordingStartTime = t],
             "Started recording")

\* A stopRecording that also empties the buffer.
stopRecording_ResetsCount(s, t) ==
    IF ~s.recording
    THEN Say(s, "Not currently recording.")
    ELSE Say([s EXCEPT !.recording = FALSE, !.led = "HIGH",
                       !.recordingEndTime = t, !.sampleCount = 0],
             "Recording stopped")

stopRecording(s, t) ==
    IF ~s.recording
    THEN Say(s, "Not currently recording.")
    ELSE Say([s EXCEPT !.recording = FALSE, !.led = "HIGH",
                       !.recordingEndTime = t],
             "Recording stopped")

\* A clear that also ends the session.
clearBuffer_Stops(s) ==
    Say([s EXCEPT !.sampleCount = 0, !.recording = FALSE], "Buffer cleared.")

\* A clear that prints its message and leaves sampleCount alone.
clearBuffer_NoReset(s) == Say(s, "Buffer cleared.")

\* The clear branch of processSerialCommands.
clearBuffer(s) == Say([s EXCEPT !.sampleCount = 0], "Buffer cleared.")

RateWarning(s) ==
    IF s.sampleRate > RATE_SAFE THEN Say(s, "WARNING: above safe rate") ELSE s

\* The rate branch with the upper bound excluded (newRate < 10000).
setRate_RejectsMax(s, a) ==
    LET newRate == ToInt(a)
    IN  IF newRate > 0 /\ newRate < RATE_MAX
        THEN RateWarning(Say([s EXCEPT !.sampleRate = newRate],
                             "Sample rate set"))
        ELSE Say(s, "Invalid sample rate (1-10000 Hz)")

\* The rate branch of processSerialCommands.
setRate(s, a) ==
    LET newRate == ToInt(a)
    IN  IF newRate > 0 /\ newRate <= RATE_MAX
        THEN RateWarning(Say([s EXCEPT !.sampleRate = newRate],
                             "Sample rate set"))
        ELSE Say(s, "Invalid sample rate (1-10000 Hz)")

\* The samples branch with 0 accepted (newSamples >= 0).
setSamples_AcceptsZero(s, a) ==
    LET newSamples == ToInt(a)
    IN  IF newSamples >= 0 /\ newSamples <= ADC_SAMPLES_MAX
        THEN Say([s EXCEPT !.ADC_SAMPLES = newSamples], "ADC samples set")
        ELSE Say(s, "Invalid ADC samples (1-1024)")

\* The samples branch of processSerialCommands.
setSamples(s, a) ==
    LET newSamples == ToInt(a)
    IN  IF newSamples >= 1 /\ newSamples <= ADC_SAMPLES_MAX
        THEN Say([s EXCEPT !.ADC_SAMPLES = newSamples], "ADC samples set")
        ELSE Say(s, "Invalid ADC samples (1-1024)")

\* The read branch: one reading, printed.
readCommand(s, mv) == Say(s, "Current voltage")

calibrateADCOffset(s, mv) ==
    Say([Say(s, "Make sure the ADC pin is connected to GND")
            EXCEPT !.adcOffset = F32FromMilli(mv)],
        "ADC offset calibrated")


\* printf("%.1f") of (float)i * 1000.0 / sampleRate, in tenths of a ms.
TimeTenths(i, rate) == (i * 10000 + (rate \div 2)) \div rate

\* One row "index,voltage,timeMs" of printData.
Row(s, i) ==
    [idx |-> i, v |-> s.voltageBuffer[i],
     timeTenths |-> TimeTenths(i, s.sampleRate)]

\* The for loop of printData from row i on: rows are printed up to the next
\* key wait (pc = "page") or to the end of the valid prefix.
RECURSIVE printRows(_, _)
printRows(s, i) ==
    IF i >= s.sampleCount
    THEN [Say(s, "Total") EXCEPT !.pc = "tick", !.showIdx = 0]
    ELSE LET s1 == [s EXCEPT !.rows = Append(@, Row(s, i)),
                             !.rd = @ \cup {i}]
         IN  IF (i + 1) % PAGE_ROWS = 0 /\ i < s.sampleCount - 1
             THEN [Say(s1, "--- Press any key to continue ---")
                      EXCEPT !.pc = "page", !.showIdx = i + 1]
             ELSE printRows(s1, i + 1)

\* A printData that asks for a key before its first row.
printData_PauseFirst(s) ==
    IF s.sampleCount = 0
    THEN Say(s, "No data recorded!")
    ELSE [Say(Say(s, "Printing recorded samples"),
              "--- Press any key to continue ---")
             EXCEPT !.pc = "page", !.showIdx = 0]

printData(s) ==
    IF s.sampleCount = 0
    THEN Say(s, "No data recorded!")
    ELSE printRows(Say(s, "Printing recorded samples"), 0)

\* The key wait of printData is over: the pending input is read away and
\* the listing goes on.
pageContinue(s) == printRows([s EXCEPT !.pending = 0], s.showIdx)

\* replayVoltages without the early return on an empty buffer.
replayVoltages_NoEmptyCheck(s) ==
    [Say(s, "Replaying voltage samples")
        EXCEPT !.sampleInterval_us = 1000000 \div s.sampleRate,
               !.replayIdx = 0, !.pc = "replay"]

\* replayVoltages up to the entry of its for loop.
replayVoltages(s) ==
    IF s.sampleCount = 0
    THEN Say(s, "No data to replay!")
    ELSE [Say(s, "Replaying voltage samples")
             EXCEPT !.sampleInterval_us = 1000000 \div s.sampleRate,
                    !.replayIdx = 0, !.pc = "replay"]

\* The for condition without the poll of the serial port.
replayGoesOn_IgnoresInput(s) == s.replayIdx < s.sampleCount

\* The condition of the for loop of replayVoltages.
replayGoesOn(s) == s.replayIdx < s.sampleCount /\ s.pending = 0

\* One pass of the for loop of replayVoltages (the progress line it may
\* print is left out).
replayStep(s) ==
    LET dacValue == DacValue(s.voltageBuffer[s.replayIdx])
    IN  [s EXCEPT !.dac = dacValue, !.dacLog = Append(@, dacValue),
                  !.rd = @ \cup {s.replayIdx}, !.replayIdx = @ + 1]

\* The end of replayVoltages without the reset of the DAC.
replayFinish_NoReset(s) ==
    RateWarning(Say([s EXCEPT !.pending = 0, !.replayIdx = 0,
                              !.sampleInterval_us = 0, !.pc = "tick"],
                    "Replay completed."))

\* replayVoltages after its for loop (the duration report is left out).
replayFinish(s) ==
    RateWarning(Say([s EXCEPT !.pending = 0, !.dac = 0,
                              !.dacLog = Append(@, 0), !.replayIdx = 0,
                              !.sampleInterval_us = 0, !.pc = "tick"],
                    "Replay completed."))

\* A printStatus that takes voltageBuffer[0] for its minimum and maximum
\* without the test sampleCount > 0.
printStatus_NoGuard(s, mv) ==
    LET s1 == RateWarning(Say(s, "=== System Status ==="))
    IN  [Say(s1, "Recorded range")
            EXCEPT !.rd = {0} \cup 0..(s1.sampleCount - 1)]

\* printStatus: minimum, maximum and average are taken over
\* voltageBuffer[0] and voltageBuffer[i], i < sampleCount, when the buffer
\* is not empty.
printStatus(s, mv) ==
    LET s1 == RateWarning(Say(s, "=== System Status ==="))
    IN  IF s1.sampleCount > 0
        THEN [Say(s1, "Recorded range")
                 EXCEPT !.rd = {0} \cup 0..(s1.sampleCount - 1)]
        ELSE s1

printHelp(s) == Say(s, "=== Available Commands ===")

unknownCommand(s) == Say(s, "Unknown command.")

\* The interval test with the operands of the subtraction exchanged.
IntervalElapsed_Reversed(t, last, rate) == last - t >= 1000 \div rate

\* The interval test with the interval taken as 100 / sampleRate.
IntervalElapsed_ShortInterval(t, last, rate) == t - last >= 100 \div rate

\* The interval test with > for >=.
IntervalElapsed_Strict(t, last, rate) == t - last > 1000 \div rate

\* "Is it time for the next sample": the test of line 95.
IntervalElapsed(t, last, rate) == t - last >= 1000 \div rate

\* The buffer-full test with > for >=.
BufferFull_OffByOne(n) == n > MAX_SAMPLES

\* "Buffer is full": the test of line 106.
BufferFull(n) == n >= MAX_SAMPLES

\* A sampling step with no capacity test: neither the guard of line 91 nor
\* the automatic stop of line 106.
loopSample_Unbounded(s, t, mv) ==
    IF s.recording
    THEN LET s1 == IF s.sampleCount = 0
                   THEN [s EXCEPT !.recordingStartTime = t] ELSE s
         IN  IF IntervalElapsed(t, s1.lastSampleTime, s1.sampleRate)
             THEN [s1 EXCEPT !.wrIdx = s1.sampleCount,
                             !.sampleCount = @ + 1,
                             !.lastSampleTime = t]
             ELSE s1
    ELSE s

\* The sampling step of loop(), at time t with the calibrated ADC result mv.
loopSample(s, t, mv) ==
    IF s.recording /\ s.sampleCount < MAX_SAMPLES
    THEN LET s1 == IF s.sampleCount = 0
                   THEN [s EXCEPT !.recordingStartTime = t] ELSE s
         IN  IF IntervalElapsed(t, s1.lastSampleTime, s1.sampleRate)
             THEN LET n == s1.sampleCount + 1
                      s2 == [s1 EXCEPT
                               !.voltageBuffer[s1.sampleCount] =
                                   readVoltageHighPrecision(mv, s1.adcOffset),
                               !.wrIdx = s1.sampleCount,
                               !.sampleCount = n,
                               !.lastSampleTime = t,
                               !.led = IF n % 100 < 50 THEN "HIGH" ELSE "LOW"]
                      s3 == IF n % 100 = 0 THEN Say(s2, "Recorded samples...")
                            ELSE s2
                  IN  IF BufferFull(s3.sampleCount)
                      THEN stopRecording(Say(s3, "Buffer full!"), t)
                      ELSE s3
             ELSE s1
    ELSE s

\* ---------------------------------------------------------------- history
E2eOff == [phase |-> "off", k |-> 0, t0 |-> 0, rate |-> 0]

\* History after a command: b is the state before the line was read, a the
\* state after its handler, t the time.
MonCmd(b, a, t) ==
    LET name == a.cmd.name
        started == name = "start" /\ ~b.recording
        afterClear == b.clearShow \in {"clrIdle", "clrRec"}
    IN  [a EXCEPT
           !.fresh = IF started THEN TRUE ELSE b.fresh,
           !.sinceT = IF started THEN t ELSE b.sinceT,
           !.startOcc = IF started THEN b.sampleCount ELSE b.startOcc,
           !.dacLog = IF name = "replay" THEN <<>> ELSE b.dacLog,
           !.clearShow =
               IF name = "clear"
               THEN (IF b.recording THEN "clrRec" ELSE "clrIdle")
               ELSE IF name = "show" /\ b.clearShow = "clrIdle" THEN "showIdle"
               ELSE IF name = "show" /\ b.clearShow = "clrRec" THEN "showRec"
               ELSE "no",
           !.clearOcc =
               IF name = "clear" THEN b.sampleCount
               ELSE IF name = "show" /\ afterClear THEN b.clearOcc
               ELSE 0,
           !.recRates =
               IF a.sampleCount = 0 THEN {}
               ELSE IF b.recording THEN b.recRates \cup {a.sampleRate}
               ELSE b.recRates,
           !.e2e =
               IF started
               THEN [phase |-> "run", k |-> 0, t0 |-> t, rate |-> b.sampleRate]
               ELSE IF name = "stop" /\ b.e2e.phase = "run"
               THEN [b.e2e EXCEPT !.phase = "stopped"]
               ELSE IF name = "show" /\ b.e2e.phase = "stopped"
               THEN [b.e2e EXCEPT !.phase = "shown"]
               ELSE E2eOff]

\* History after a sampling step at time t: b before, a after.  A tick of
\* the scenario is on time when it is taken exactly one configured
\* interval (1000/rate ms, rate the one in effect at the start) after the
\* previous one, or after the start; a tick taken late ends the scenario.
MonTick(b, a, t) ==
    LET appended == a.sampleCount = b.sampleCount + 1
        e == b.e2e
        I == 1000 \div e.rate
        due == e.t0 + (e.k + 1) * I
    IN  [a EXCEPT
           !.fresh = IF appended THEN FALSE ELSE b.fresh,
           !.sinceT = IF appended THEN t ELSE b.sinceT,
           !.recRates =
               IF appended
               THEN (IF b.sampleCount = 0 THEN {} ELSE b.recRates)
                        \cup {b.sampleRate}
               ELSE b.recRates,
           !.e2e =
               IF e.phase # "run" \/ e.k = MAX_SAMPLES THEN e
               ELSE IF I = 0 \/ t > due THEN E2eOff
               ELSE IF t = due THEN [e EXCEPT !.k = @ + 1]
               ELSE e]

\* ---------------------------------------------------------------- actions
\* Serial.readStringUntil('\n') in processSerialCommands: one line leaves
\* the receive buffer; what the previous step printed is history.
ReadLine(s, name, arg) ==
    [s EXCEPT !.pending = @ - 1, !.cmd = [name |-> name, arg |-> arg],
              !.out = <<>>, !.rows = <<>>, !.rd = {}, !.pc = "tick"]

LineOf(name) == pc = "cmd" /\ pending > 0 /\ \E kw \in Keywords : Dispatch(kw) = name

\* The state at the first pass of loop(): the global initialisers, and
\* setup(), which calibrates the offset once and leaves the LED on.  The
\* clock is counted from there.
Init ==
    /\ pc = "cmd"
    /\ now = 0
    /\ pending = 0
    /\ recording = FALSE
    /\ voltageBuffer = [i \in 0..(MAX_SAMPLES - 1) |-> 0]
    /\ sampleCount = 0
    /\ sampleRate = DEFAULT_SAMPLE_RATE
    /\ lastSampleTime = 0
    /\ recordingStartTime = 0
    /\ recordingEndTime = 0
    /\ adcOffset \in {F32FromMilli(mv) : mv \in ADC_MV}
    /\ ADC_SAMPLES = DEFAULT_ADC_SAMPLES
    /\ led = "HIGH"
    /\ dac = 0
    /\ replayIdx = 0
    /\ sampleInterval_us = 0
    /\ showIdx = 0
    /\ cmd = NoCmd
    /\ out = <<>>
    /\ rows = <<>>
    /\ rd = {}
    /\ wrIdx = -1
    /\ dacLog = <<>>
    /\ fresh = FALSE
    /\ startOcc = 0
    /\ clearShow = "no"
    /\ clearOcc = 0
    /\ recRates = {}
    /\ e2e = E2eOff
    /\ sinceT = 0

\* A line arrives on the serial port.  Nothing reads the receive buffer
\* during the sampling step, so a line that arrives then is taken to arrive
\* at the start of the next pass.
Arrive ==
    /\ pc # "tick"
    /\ pending < MaxPending
    /\ Commit([Cur EXCEPT !.pending = @ + 1])
    /\ UNCHANGED now

\* processSerialCommands with nothing available.
NoCommand ==
    /\ pc = "cmd"
    /\ pending = 0
    /\ Commit([Cur EXCEPT !.pc = "tick", !.out = <<>>])
    /\ UNCHANGED now

CmdStart ==
    /\ LineOf("start")
    /\ Commit(MonCmd(Cur, startRecording(ReadLine(Cur, "start", NoArg), now), now))
    /\ UNCHANGED now

CmdStop ==
    /\ LineOf("stop")
    /\ Commit(MonCmd(Cur, stopRecording(ReadLine(Cur, "stop", NoArg), now), now))
    /\ UNCHANGED now

CmdShow ==
    /\ LineOf("show")
    /\ Commit(MonCmd(Cur, printData(ReadLine(Cur, "show", NoArg)), now))
    /\ UNCHANGED now

CmdReplay ==
    /\ LineOf("replay")
    /\ Commit(MonCmd(Cur, replayVoltages(ReadLine(Cur, "replay", NoArg)), now))
    /\ UNCHANGED now

CmdStatus ==
    /\ LineOf("status")
    /\ \E mv \in ADC_MV :
         Commit(MonCmd(Cur, printStatus(ReadLine(Cur, "status", NoArg), mv), now))
    /\ UNCHANGED now

CmdClear ==
    /\ LineOf("clear")
    /\ Commit(MonCmd(Cur, clearBuffer(ReadLine(Cur, "clear", NoArg)), now))
    /\ UNCHANGED now

CmdRate ==
    /\ LineOf("rate")
    /\ \E a \in RateArgs :
         Commit(MonCmd(Cur, setRate(ReadLine(Cur, "rate", a), a), now))
    /\ UNCHANGED now

CmdSamples ==
    /\ LineOf("samples")
    /\ \E a \in SamplesArgs :
         Commit(MonCmd(Cur, setSamples(ReadLine(Cur, "samples", a), a), now))
    /\ UNCHANGED now

CmdRead ==
    /\ LineOf("read")
    /\ \E mv \in ADC_MV :
         Commit(MonCmd(Cur, readCommand(ReadLine(Cur, "read", NoArg), mv), now))
    /\ UNCHANGED now

CmdCalibrate ==
    /\ LineOf("calibrate")
    /\ \E mv \in ADC_MV :
         Commit(MonCmd(Cur, calibrateADCOffset(ReadLine(Cur, "calibrate", NoArg), mv), now))
    /\ UNCHANGED now

CmdHelp ==
    /\ LineOf("help")
    /\ Commit(MonCmd(Cur, printHelp(ReadLine(Cur, "help", NoArg)), now))
    /\ UNCHANGED now

CmdUnknown ==
    /\ LineOf("unknown")
    /\ Commit(MonCmd(Cur, unknownCommand(ReadLine(Cur, "unknown", NoArg)), now))
    /\ UNCHANGED now

\* One pass of the for loop of replayVoltages, with the wait for the next
\* sample time (whole milliseconds of the interval).
ReplayStep ==
    /\ pc = "replay"
    /\ replayGoesOn(Cur)
    /\ now + (sampleInterval_us \div 1000) <= MaxTime
    /\ Commit(replayStep(Cur))
    /\ now' = now + (sampleInterval_us \div 1000)

\* The for loop of replayVoltages is left: all samples written, or input
\* is available.
ReplayEnd ==
    /\ pc = "replay"
    /\ ~replayGoesOn(Cur)
    /\ Commit(replayFinish(Cur))
    /\ UNCHANGED now

\* while (!Serial.available()) delay(10) in printData.
PageWait ==
    /\ pc = "page"
    /\ pending = 0
    /\ now + 10 <= MaxTime
    /\ now' = now + 10
    /\ Commit(Cur)

\* A key ends the wait of printData.
PageKey ==
    /\ pc = "page"
    /\ pending > 0
    /\ Commit(pageContinue(Cur))
    /\ UNCHANGED now

\* The sampling step of loop() and its delay.
Tick ==
    /\ pc = "tick"
    /\ \E mv \in ADC_MV, d \in Delays :
         /\ now + d <= MaxTime
         /\ Commit(MonTick(Cur,
                loopSample([Cur EXCEPT !.pc = "cmd", !.cmd = NoCmd,
                                       !.out = <<>>, !.rows = <<>>,
                                       !.rd = {}], now, mv),
                now))
         /\ now' = now + d

Next ==
    \/ Arrive
    \/ NoCommand
    \/ CmdStart
    \/ CmdStop
    \/ CmdShow
    \/ CmdReplay
    \/ CmdStatus
    \/ CmdClear
    \/ CmdRate
    \/ CmdSamples
    \/ CmdRead
    \/ CmdCalibrate
    \/ CmdHelp
    \/ CmdUnknown
    \/ ReplayStep
    \/ ReplayEnd
    \/ PageWait
    \/ PageKey
    \/ Tick

Spec == Init /\ [][Next]_vars

\* ------------------------------------------------- the loop without an end
\* The same program followed for ever, for the claims about what
\* eventually happens.  The code uses millis() in differences only (line
\* 95), so the state is kept relative to the current time: now stays 0 and
\* a step that takes d ms moves lastSampleTime back by d.  A time older
\* than the longest sampling interval in use is kept at that age, which
\* leaves the test of line 95 as it is.  recordingStartTime and
\* recordingEndTime are only printed and are not followed, nor are the
\* history variables; the ADC input is grounded.
LiveRateArgs == {NoArg, Num(50), Num(10000), Num(10001)}

LiveRates ==
    {DEFAULT_SAMPLE_RATE}
        \cup {a.val : a \in {x \in LiveRateArgs : x.num /\ x.val \in 1..RATE_MAX}}

LiveHorizon ==
    CHOOSE h \in {1000 \div r : r \in LiveRates} :
        \A r \in LiveRates : 1000 \div r <= h

LiveADC == {0}

LiveArgs(name) ==
    IF name = "rate" THEN LiveRateArgs
    ELSE IF name = "samples" THEN SamplesArgs
    ELSE {NoArg}

Aged(t, d) == IF t - d < -LiveHorizon THEN -LiveHorizon ELSE t - d

\* The state d ms later, without what this specification does not follow.
Elapse(s, d) ==
    [s EXCEPT !.lastSampleTime = Aged(@, d),
              !.recordingStartTime = 0, !.recordingEndTime = 0,
              !.wrIdx = -1, !.dacLog = <<>>, !.rd = {}, !.fresh = FALSE,
              !.startOcc = 0, !.clearShow = "no", !.clearOcc = 0,
              !.recRates = {}, !.e2e = E2eOff, !.sinceT = 0]

\* The handler that processSerialCommands calls for the line read.
processSerialCommands(s, name, a, mv, t) ==
    CASE name = "start" -> startRecording(s, t)
      [] name = "stop" -> stopRecording(s, t)
      [] name = "show" -> printData(s)
      [] name = "replay" -> replayVoltages(s)
      [] name = "status" -> printStatus(s, mv)
      [] name = "clear" -> clearBuffer(s)
      [] name = "rate" -> setRate(s, a)
      [] name = "samples" -> setSamples(s, a)
      [] name = "read" -> readCommand(s, mv)
      [] name = "calibrate" -> calibrateADCOffset(s, mv)
      [] name = "help" -> printHelp(s)
      [] OTHER -> unknownCommand(s)

LiveCommand ==
    /\ pc = "cmd"
    /\ pending > 0
    /\ \E kw \in Keywords :
         \E a \in LiveArgs(Dispatch(kw)), mv \in LiveADC :
            Commit(Elapse(processSerialCommands(
                              ReadLine(Cur, Dispatch(kw), a),
                              Dispatch(kw), a, mv, now), 0))
    /\ UNCHANGED now

LiveReplayStep ==
    /\ pc = "replay"
    /\ replayGoesOn(Cur)
    /\ Commit(Elapse(replayStep(Cur), sampleInterval_us \div 1000))
    /\ UNCHANGED now

LiveReplayEnd ==
    /\ pc = "replay"
    /\ ~replayGoesOn(Cur)
    /\ Commit(Elapse(replayFinish(Cur), 0))
    /\ UNCHANGED now

LivePageWait ==
    /\ pc = "page"
    /\ pending = 0
    /\ Commit(Elapse(Cur, 10))
    /\ UNCHANGED now

LivePageKey ==
    /\ pc = "page"
    /\ pending > 0
    /\ Commit(Elapse(pageContinue(Cur), 0))
    /\ UNCHANGED now

LiveTick ==
    /\ pc = "tick"
    /\ \E mv \in LiveADC, d \in Delays :
         Commit(Elapse(loopSample([Cur EXCEPT !.pc = "cmd", !.cmd = NoCmd,
                                              !.out = <<>>, !.rows = <<>>],
                                  now, mv), d))
    /\ UNCHANGED now

\* The steps of the program: everything but the arrival of input.
LiveProgram ==
    \/ NoCommand
    \/ LiveCommand
    \/ LiveReplayStep
    \/ LiveReplayEnd
    \/ LivePageWait
    \/ LivePageKey
    \/ LiveTick

LiveNext == Arrive \/ LiveProgram

\* The processor never stops: a step of the program that stays possible is
\* taken.  Nothing is assumed of the input.
LiveSpec == Init /\ [][LiveNext]_vars /\ WF_vars(LiveProgram)

\* ================================================================== claims

\* C1: after any sequence of commands and sampling ticks the occupancy is
\* within 0..MAX_SAMPLES, and no sample is ever written at a buffer index
\* at or beyond the capacity.
C1_CountWithinCapacity ==
    /\ sampleCount \in 0..MAX_SAMPLES
    /\ wrIdx \in -1..(MAX_SAMPLES - 1)

\* The buffer has been filled to its last entry.
C1_Witness == sampleCount = MAX_SAMPLES /\ wrIdx = MAX_SAMPLES - 1

\* C2: reaching capacity forces the transition out of Recording: whenever
\* the occupancy equals the capacity the controller is Idle and the end
\* timestamp has been recorded by the tick that appended the last sample
\* (it is not older than that sample; stopRecording reads millis() after
\* the sample was taken); so recording holds only while
\* sampleCount < MAX_SAMPLES.
C2_FullMeansStopped ==
    /\ recording => sampleCount < MAX_SAMPLES
    /\ sampleCount = MAX_SAMPLES =>
           (~recording /\ recordingEndTime >= lastSampleTime)

\* The tick that filled the buffer has just stopped the session.
C2_Witness ==
    /\ pc = "cmd"
    /\ sampleCount = MAX_SAMPLES
    /\ out = <<"Buffer full!", "Recording stopped">>
    /\ ~recording
    /\ recordingEndTime = lastSampleTime
    /\ recordingEndTime > recordingStartTime

\* C3: a start that leaves Idle resets the occupancy to 0 whatever it was,
\* and the first sample appended in the session is stored at index 0.
C3_StartResetsCount ==
    [][ /\ (pc = "cmd" /\ cmd'.name = "start" /\ ~recording)
            => (sampleCount' = 0 /\ recording' /\ fresh')
        /\ (fresh /\ ~fresh') => (wrIdx' = 0 /\ sampleCount' = 1) ]_vars

\* The first sample of a session started over a non-empty buffer has been
\* appended.
C3_Witness ==
    /\ ~fresh
    /\ startOcc > 0
    /\ recording
    /\ sampleCount = 1
    /\ wrIdx = 0
    /\ lastSampleTime = now - 10

\* C4: the command 'rate N' makes sampleRate equal N for every N in
\* 1..10000, in Idle and in Recording; for any other argument, a missing or
\* non-numeric one included, sampleRate keeps its value and the rejection
\* message is printed.
C4_RateCommand ==
    [][ (pc = "cmd" /\ cmd'.name = "rate") =>
          IF cmd'.arg.num /\ cmd'.arg.val \in 1..10000
          THEN sampleRate' = cmd'.arg.val
          ELSE /\ sampleRate' = sampleRate
               /\ out' = <<"Invalid sample rate (1-10000 Hz)">> ]_vars

\* The upper bound 10000 was accepted while Recording.
C4_Witness ==
    /\ pc = "tick"
    /\ cmd = [name |-> "rate", arg |-> Num(10000)]
    /\ sampleRate = 10000
    /\ recording

\* C5 as stated: a show that directly follows a clear reports "no data" and
\* prints no row, whether the clear was issued in Idle or in Recording.
C5_ClearThenShow ==
    (cmd.name = "show" /\ clearShow \in {"showIdle", "showRec"})
        => (out = <<"No data recorded!">> /\ rows = <<>>)

\* C5 amended: a show that directly follows a clear issued while Idle
\* reports "no data" and prints no row, whatever the occupancy before the
\* clear was.
C5_ClearThenShowIdle ==
    (cmd.name = "show" /\ clearShow = "showIdle")
        => (out = <<"No data recorded!">> /\ rows = <<>> /\ sampleCount = 0)

\* A show after a clear that emptied a non-empty buffer while Idle.
C5_Witness ==
    /\ pc = "tick"
    /\ cmd.name = "show"
    /\ clearShow = "showIdle"
    /\ clearOcc > 0
    /\ out = <<"No data recorded!">>

\* C6: a replay with sampleCount = 0 writes nothing to the DAC, reads
\* nothing from the serial port beyond its own line, changes no state and
\* prints "No data to replay!".
C6_ReplayEmptyIsNoop ==
    /\ []((cmd.name = "replay" /\ sampleCount = 0)
             => (pc = "tick" /\ dacLog = <<>>
                 /\ out = <<"No data to replay!">>))
    /\ [][ (pc = "cmd" /\ cmd'.name = "replay" /\ sampleCount = 0) =>
             /\ pc' = "tick"
             /\ pending' = pending - 1
             /\ dac' = dac
             /\ UNCHANGED <<recording, voltageBuffer, sampleCount, sampleRate,
                            lastSampleTime, recordingStartTime,
                            recordingEndTime, adcOffset, ADC_SAMPLES, led,
                            replayIdx, sampleInterval_us, showIdx, now>> ]_vars

\* An empty replay returned and left the input that was pending behind it.
C6_Witness ==
    /\ pc = "tick"
    /\ cmd.name = "replay"
    /\ sampleCount = 0
    /\ pending > 0
    /\ out = <<"No data to replay!">>
    /\ dacLog = <<>>

\* C7 as stated: every value the replay loop writes is in 0..255; a stored
\* sample at or above 3.3 V is written as 255 and a stored 0 V as 0.  In
\* the replay loop dacLog[k] is the value written for sample k - 1.
C7_ReplayCodes ==
    pc = "replay" =>
        \A k \in 1..Len(dacLog) :
            /\ dacLog[k] \in 0..255
            /\ voltageBuffer[k - 1] * 10 >= 33 * (2^22) => dacLog[k] = 255
            /\ voltageBuffer[k - 1] = 0 => dacLog[k] = 0

\* C8: end to end.  A start at rate R, then k <= MAX_SAMPLES ticks taken
\* on time (each one interval of 1000/R ms after the previous one), then a
\* stop, with no other command in between and the rate left alone: the
\* occupancy is k; the show that follows lists exactly the rows 0..k-1 and
\* the time of row i is i * 1000 / R ms (printed in tenths of a ms).
C8_EndToEnd ==
    /\ e2e.phase \in {"stopped", "shown"} =>
           (sampleCount = e2e.k /\ sampleRate = e2e.rate)
    /\ (e2e.phase = "shown" /\ pc = "tick" /\ cmd.name = "show") =>
           /\ Len(rows) = e2e.k
           /\ \A j \in 1..Len(rows) :
                /\ rows[j].idx = j - 1
                /\ rows[j].timeTenths * e2e.rate = (j - 1) * 10000

\* The scenario has run through with at least two samples and the listing
\* is complete.
C8_Witness ==
    /\ e2e.phase = "shown"
    /\ pc = "tick"
    /\ cmd.name = "show"
    /\ e2e.k >= 2
    /\ Len(rows) = e2e.k
    /\ rows[2].timeTenths = 100

\* C9: every rejected command leaves the state alone and prints one
\* message: start while Recording, stop while Idle, replay or show with an
\* empty buffer, a rate outside 1..10000, an oversample count outside
\* 1..1024, and an unknown command.
C9_Rejected ==
    LET name == cmd'.name
        n == IF cmd'.arg.num THEN cmd'.arg.val ELSE 0
    IN  \/ name = "start" /\ recording
        \/ name = "stop" /\ ~recording
        \/ name \in {"replay", "show"} /\ sampleCount = 0
        \/ name = "rate" /\ n \notin 1..10000
        \/ name = "samples" /\ n \notin 1..1024
        \/ name = "unknown"

C9_RejectedIsNoop ==
    [][ (pc = "cmd" /\ C9_Rejected) =>
          /\ UNCHANGED <<sampleCount, voltageBuffer, recording, sampleRate,
                         ADC_SAMPLES, adcOffset, recordingStartTime,
                         recordingEndTime, lastSampleTime, dac, led, now>>
          /\ Len(out') = 1
          /\ rows' = <<>>
          /\ pc' = "tick" ]_vars

\* A start was refused in the middle of a session that holds samples.
C9_Witness ==
    /\ pc = "tick"
    /\ cmd.name = "start"
    /\ out = <<"Already recording!">>
    /\ recording
    /\ sampleCount > 0
    /\ lastSampleTime > recordingStartTime

\* C10 as stated: replay drives the output at the rate the data was
\* recorded at.  When the session is over and one rate r was in effect from
\* the first buffered sample to its end, the interval of the replay loop is
\* 1000000 / r microseconds, whatever commands came after the session.
C10_ReplayAtRecordedRate ==
    (pc = "replay" /\ ~recording) =>
        \A r \in recRates :
            recRates = {r} => sampleInterval_us = 1000000 \div r

\* C11 as stated: the loop never blocks waiting for input, replay being
\* the one exception: once a command other than replay has been read,
\* control is back at the sampling step, or its handler is going on with
\* input that had already arrived; it never stands waiting for a byte.
C11_NeverBlocks ==
    cmd.name \notin {"none", "replay"}
        => (pc = "tick" \/ (pc = "page" /\ pending > 0))

\* C11 amended: every command other than replay, and other than a show of
\* more rows than one page holds, is processed to its end in the step that
\* read it and control is back at the sampling step, in Idle and in
\* Recording; the key wait of printData is entered only by a show of more
\* than PAGE_ROWS samples.
C11_NeverBlocksButPaging ==
    /\ (cmd.name \notin {"none", "replay"}
          /\ ~(cmd.name = "show" /\ sampleCount > PAGE_ROWS)) => pc = "tick"
    /\ pc = "page" => (cmd.name = "show" /\ sampleCount > PAGE_ROWS)

\* A show of a non-empty buffer of at most one page returned while
\* Recording, with no input left.
C11_Witness ==
    /\ pc = "tick"
    /\ cmd.name = "show"
    /\ recording
    /\ sampleCount \in 1..PAGE_ROWS
    /\ pending = 0
    /\ Len(rows) = sampleCount

\* C12: whenever a replay of a non-empty buffer has ended, by walking all
\* samples or by an abort on incoming input (also one before the first
\* sample was written), the last value written to the DAC is 0 and the DAC
\* is at 0.
C12_ReplayEndsAtZero ==
    (cmd.name = "replay" /\ pc = "tick" /\ sampleCount > 0)
        => /\ dac = 0
           /\ Len(dacLog) \in 1..(sampleCount + 1)
           /\ dacLog[Len(dacLog)] = 0

\* A replay was aborted after it had written a non-zero code for sample 0
\* and before sample 1.
C12_Witness ==
    /\ cmd.name = "replay"
    /\ pc = "tick"
    /\ sampleCount > 1
    /\ Len(dacLog) = 2
    /\ dacLog[1] > 0
    /\ dac = 0

\* C13: sampleCount changes in two ways only: a sampling step taken while
\* recording adds exactly 1, and a clear, or a start that leaves Idle, sets
\* it to 0.  No other command and no sampling step in Idle changes it, nor
\* does a step of replay or of the listing.
C13_CountChanges ==
    [][ sampleCount' # sampleCount =>
          \/ pc = "tick" /\ recording /\ sampleCount' = sampleCount + 1
          \/ pc = "cmd" /\ cmd'.name = "clear" /\ sampleCount' = 0
          \/ pc = "cmd" /\ cmd'.name = "start" /\ ~recording
                /\ sampleCount' = 0 ]_vars

\* A clear has emptied a non-empty buffer in the middle of a session.
C13_Witness ==
    /\ pc = "tick"
    /\ cmd.name = "clear"
    /\ recording
    /\ clearOcc > 0
    /\ sampleCount = 0
    /\ wrIdx = clearOcc - 1

\* C14: entries beyond sampleCount are never read: every index of
\* voltageBuffer read by show, replay or status is in 0..sampleCount-1
\* (rd is emptied when a line is read and by the sampling step, and
\* sampleCount does not change in between).
C14_ReadsBelowCount ==
    /\ \A i \in rd : i \in 0..(sampleCount - 1)
    /\ rd # {} => cmd.name \in {"show", "replay", "status"}

\* A show listed the one valid sample while a stale one of an earlier,
\* cleared part of the session lay behind it.
C14_Witness ==
    /\ pc = "tick"
    /\ cmd.name = "show"
    /\ sampleCount = 1
    /\ rd = {0}
    /\ voltageBuffer[1] # 0

\* C15: a clear sets sampleCount to 0, in Idle and in Recording, and
\* leaves recording, sampleRate, ADC_SAMPLES and adcOffset as they were; a
\* clear read while Recording does not end the session, and the sampling
\* step goes on appending, the next sample at index 0: from the clear up to
\* the next command the session is on unless the buffer has filled, and a
\* sampling step taken with the interval elapsed writes index sampleCount.
C15_Clear ==
    /\ []((clearShow = "clrRec" /\ sampleCount < MAX_SAMPLES) => recording)
    /\ [][ (pc = "cmd" /\ cmd'.name = "clear") =>
             /\ sampleCount' = 0
             /\ pc' = "tick"
             /\ UNCHANGED <<recording, sampleRate, ADC_SAMPLES, adcOffset>>
         ]_vars
    /\ [][ (pc = "tick" /\ clearShow = "clrRec" /\ sampleCount < MAX_SAMPLES
              /\ now - lastSampleTime >= 1000 \div sampleRate) =>
             /\ sampleCount' = sampleCount + 1
             /\ wrIdx' = sampleCount ]_vars

\* After a clear that emptied a non-empty buffer while Recording, the
\* session is still on and a sample has been appended at index 0 again.
C15_Witness ==
    /\ pc = "cmd"
    /\ clearShow = "clrRec"
    /\ clearOcc > 0
    /\ recording
    /\ sampleCount = 1
    /\ wrIdx = 0

\* C16 as stated: recordingStartTime is written only by the start that
\* leaves Idle, which sets it to the time the command is processed; the
\* sampling step, clear, stop and every other command leave it unchanged.
C16_StartTimeFrame ==
    [][ recordingStartTime' # recordingStartTime =>
          /\ pc = "cmd"
          /\ cmd'.name = "start"
          /\ ~recording
          /\ recordingStartTime' = now ]_vars

\* C17: a sampling step taken while recording appends at most one sample,
\* and only if the time since the previous sample of the session (since
\* the start, for the first one) is at least 1000 \div sampleRate ms, with
\* the rate in effect at that step; a step with less elapsed time appends
\* nothing and leaves lastSampleTime as it was.
C17_SamplingInterval ==
    [][ (pc = "tick" /\ recording) =>
          /\ sampleCount' \in {sampleCount, sampleCount + 1}
          /\ sampleCount' = sampleCount + 1 =>
                 /\ now - sinceT >= 1000 \div sampleRate
                 /\ lastSampleTime' = now
          /\ now - sinceT < 1000 \div sampleRate =>
                 /\ sampleCount' = sampleCount
                 /\ lastSampleTime' = lastSampleTime
                 /\ voltageBuffer' = voltageBuffer ]_vars

\* The last sampling step of a session came between two samples, after a
\* part of the interval only, and appended nothing.
C17_Witness ==
    /\ pc = "cmd"
    /\ recording
    /\ sampleCount >= 1
    /\ sinceT = lastSampleTime
    /\ (now - 10) - sinceT \in 1..((1000 \div sampleRate) - 1)

\* C18: replay writes the samples in index order from 0, each once: in
\* the loop the indices read are 0..replayIdx-1 and one value has been
\* written for each; a pass of the loop writes the code of sample
\* replayIdx and moves on by one.  When the loop is left with no input
\* pending, every sample 0..sampleCount-1 has been written; once input is
\* pending no further sample is written.  Replay leaves sampleCount,
\* voltageBuffer, recording and sampleRate as they were.
C18_ReplayOrder ==
    /\ [](pc = "replay" =>
            /\ replayIdx \in 0..sampleCount
            /\ rd = 0..(replayIdx - 1)
            /\ Len(dacLog) = replayIdx)
    /\ [][ (pc = "replay" /\ pc' = "replay" /\ dacLog' # dacLog) =>
             /\ pending = 0
             /\ replayIdx' = replayIdx + 1
             /\ dacLog' = Append(dacLog, DacValue(voltageBuffer[replayIdx]))
         ]_vars
    /\ [][ (pc = "replay" /\ pc' # "replay" /\ pending = 0) =>
             /\ rd' = 0..(sampleCount - 1)
             /\ Len(dacLog') = sampleCount + 1 ]_vars
    /\ [][ (pc = "replay" /\ pending > 0) =>
             /\ rd' = rd
             /\ dacLog' \in {dacLog, Append(dacLog, 0)} ]_vars
    /\ [][ (pc = "replay" \/ (pc = "cmd" /\ cmd'.name = "replay")) =>
             UNCHANGED <<sampleCount, voltageBuffer, recording, sampleRate>>
         ]_vars

\* A replay of more than one sample ran to its end with no input: every
\* sample was written, then the 0 of the reset.
C18_Witness ==
    /\ pc = "tick"
    /\ cmd.name = "replay"
    /\ sampleCount > 1
    /\ rd = 0..(sampleCount - 1)
    /\ Len(dacLog) = sampleCount + 1
    /\ dacLog[sampleCount] > 0

\* C19 as stated: once a recording is under way, and unless a stop or a
\* clear is processed, the session ends by itself with the buffer full and
\* recording off, whatever other commands are read meanwhile.
C19_SessionEnds ==
    recording ~> \/ ~recording /\ sampleCount = MAX_SAMPLES
                 \/ cmd.name \in {"stop", "clear"}

\* C19 amended: the same, unless a show stands at a page break with no
\* input to end the wait.
C19_SessionEndsUnlessPaging ==
    recording ~> \/ ~recording /\ sampleCount = MAX_SAMPLES
                 \/ cmd.name \in {"stop", "clear"}
                 \/ pc = "page" /\ pending = 0

\* A session has ended by itself with the buffer full, at a rate that was
\* set by command.
C19_Witness ==
    /\ pc = "cmd"
    /\ ~recording
    /\ sampleCount = MAX_SAMPLES
    /\ led = "HIGH"
    /\ sampleRate = 50
    /\ lastSampleTime = -10

\* C20: in every reachable state sampleRate is in 1..10000 and ADC_SAMPLES
\* in 1..1024, so the divisors of 1000 / sampleRate, 1000000 / sampleRate,
\* i * 1000 / sampleRate and total / ADC_SAMPLES are never 0, the interval
\* a replay computes is 1000000 \div sampleRate, and the sum of
\* ADC_SAMPLES raw 12-bit readings fits the 32-bit accumulator.
C20_DivisorsInRange ==
    /\ sampleRate \in 1..RATE_MAX
    /\ ADC_SAMPLES \in 1..ADC_SAMPLES_MAX
    /\ FitsUint32(AccumulatorMax(ADC_SAMPLES))
    /\ AccumulatorMax(ADC_SAMPLES) \div ADC_SAMPLES = ADC_RAW_MAX
    /\ pc = "replay" => sampleInterval_us = 1000000 \div sampleRate

\* A sample has been taken at the largest rate with the largest
\* oversampling, both set by command.
C20_Witness ==
    /\ pc = "cmd"
    /\ sampleRate = RATE_MAX
    /\ ADC_SAMPLES = ADC_SAMPLES_MAX
    /\ recording
    /\ sampleCount > 0
    /\ wrIdx = sampleCount - 1

====
